---- MODULE Spec2Model ----
(***************************************************************************)
(* Model of src/vice/src/pet/pethre.c: the PET Hi-Res Emulator board.      *)
(*                                                                         *)
(* State: the enable flag, the $E888 latch, the banking flags the latch    *)
(* drives, the CRTC's hi-res draw callback, the CRTC's selected register,  *)
(* the HREMEM snapshot module last written, and a record of the last call  *)
(* made to the board (its inputs and everything it reported).              *)
(***************************************************************************)
EXTENDS Integers, Sequences, FiniteSets

VARIABLES
    pethre_enabled,         \* int pethre_enabled (0 or 1)
    reg_E888,               \* static uint8_t reg_E888
    petmem_ramON,           \* int petmem_ramON (petmem.h)
    ramsel9,                \* petres.ramsel9
    ramselA,                \* petres.ramselA
    petres_map,             \* petres.map
    hires_draw_callback,    \* crtc's hi-res draw callback: "NULL" or "pethre_DRAW"
    crtc_regno,             \* crtc.regno, the selected CRTC register
    snapshot,               \* the HREMEM module of the snapshot last written
    lastMA12,               \* history: MA12 of the last start-address write acted on
    call                    \* the last call: its inputs and what it reported

vars == << pethre_enabled, reg_E888, petmem_ramON, ramsel9, ramselA, petres_map,
           hires_draw_callback, crtc_regno, snapshot, lastMA12, call >>

board == << pethre_enabled, reg_E888, petmem_ramON, ramsel9, ramselA, petres_map,
            hires_draw_callback, crtc_regno, snapshot, lastMA12 >>

----------------------------------------------------------------------------
(* Program constants *)

CRTC_MA12 == 16
E888_ROMS_ON == 15
E888_ROMS_OFF == 131
E888_LATCH_ADDR_BIT == 8
CRTC_DATA_ADDR_BIT == 1
CRTC_START_HI_REGNO == 12
MA_WIDTH == 64
MA_LO == MA_WIDTH - 1
INT_MAX == 2147483647
MA_HI == INT_MAX - MA_LO
RA_SKIP == 7 * MA_WIDTH
YMOD8_LIMIT == 8
SCREEN_BASE == 32768
SCREEN_END == 57344
HREMEM_DUMP_VER_MAJOR == 1
HREMEM_DUMP_VER_MINOR == 0
module_ram_name == "HREMEM"
SMR_W_DEFAULT == 15
UINT8_MOD == 256
UINT16_MOD == 65536

----------------------------------------------------------------------------
(* Bounds of the model *)

MaxSmallWidth == 2
MaxXStart == 1
MaxBlock == 49

----------------------------------------------------------------------------
(* C operators *)

RECURSIVE BitAnd(_, _)
BitAnd(a, b) ==
    IF a = 0 \/ b = 0 THEN 0
    ELSE (IF a % 2 = 1 /\ b % 2 = 1 THEN 1 ELSE 0) + 2 * BitAnd(a \div 2, b \div 2)

ShiftLeft(a, n) == a * (2 ^ n)

Truth(value) == IF value # 0 THEN 1 ELSE 0

----------------------------------------------------------------------------
(* Input sets *)

Addrs == { 59520, 59521, 59528, 59529 }     \* $E880, $E881, $E888, $E889
StartHiAddrs == { 59521 }                   \* bit 3 clear, bit 0 set
Values == { E888_ROMS_ON, E888_ROMS_OFF, 2, 18 }
Regnos == { 0, CRTC_START_HI_REGNO }
Maps == { "PET_MAP_8296", "PET_MAP_LINEAR" }
EnableValues == { 0, 1, 2 }

NoModule == [ name |-> "none", major |-> 0, minor |-> 0, body |-> << >> ]
ForeignModules ==
    { NoModule,
      [ name |-> module_ram_name, major |-> 2, minor |-> 0, body |-> << E888_ROMS_OFF >> ],
      [ name |-> module_ram_name, major |-> 1, minor |-> 0, body |-> << >> ],
      [ name |-> module_ram_name, major |-> 1, minor |-> 1, body |-> << 387 >> ] }

----------------------------------------------------------------------------
(* The record of a call *)

NoMon == [ e888 |-> -1, unusual |-> FALSE, ramON |-> -1 ]

Call(op, args, ret) ==
    [ op |-> op, args |-> args, ret |-> ret,
      ramsel_changed |-> 0,         \* calls of ramsel_changed()
      ui_error |-> FALSE,           \* ui_error() / log_message() of a refusal
      log_error |-> FALSE,          \* log_error() of the snapshot reader
      ram_ret |-> 0,                \* what pethre_ram_*_snapshot_module returned
      mon |-> NoMon,                \* what mon_out() printed
      drawn |-> FALSE,              \* pethre_DRAW got past its guard
      diag |-> FALSE,               \* printf("screen_rel too large ...")
      screen_rel |-> 0,             \* screen_rel - mem_ram, as computed
      reads |-> << >>,              \* offsets into mem_ram read, in order
      pw |-> << >> ]                \* indexes into dwg_table written, in order

----------------------------------------------------------------------------
(* Lifecycle *)

Init ==
    /\ pethre_enabled = 0
    /\ reg_E888 = 0
    /\ petmem_ramON = 0
    /\ ramsel9 \in {0, 1}
    /\ ramselA \in {0, 1}
    /\ petres_map \in Maps
    /\ hires_draw_callback = "NULL"
    /\ crtc_regno = 0
    /\ snapshot = NoModule
    /\ lastMA12 = "none"
    /\ call = Call("init", << >>, 0)

\* Mutant: the model check is dropped.
pethre_activate_any_model ==
    IF petres_map # "PET_MAP_8296" THEN 0 ELSE 0

\* pethre_activate(): its return value; pethre_reset() changes nothing.
pethre_activate ==
    IF petres_map # "PET_MAP_8296" THEN -1 ELSE 0

\* pethre_deactivate(): its return value; it changes nothing.
pethre_deactivate == 0

\* set_pethre_enabled(): the return value and the new flag.
set_enabled_result(value) ==
    IF Truth(value) = 0
    THEN IF pethre_enabled # 0 /\ pethre_deactivate < 0
         THEN [ ret |-> -1, enabled |-> pethre_enabled, refused |-> FALSE ]
         ELSE [ ret |-> 0, enabled |-> 0, refused |-> FALSE ]
    ELSE IF pethre_enabled = 0 /\ pethre_activate < 0
         THEN [ ret |-> -1, enabled |-> pethre_enabled, refused |-> TRUE ]
         ELSE [ ret |-> 0, enabled |-> 1, refused |-> FALSE ]

set_pethre_enabled(value) ==
    LET r == set_enabled_result(value) IN
    /\ pethre_enabled' = r.enabled
    /\ call' = [ Call("set_pethre_enabled", << value >>, r.ret)
                   EXCEPT !.ui_error = r.refused ]
    /\ UNCHANGED << reg_E888, petmem_ramON, ramsel9, ramselA, petres_map,
                    hires_draw_callback, crtc_regno, snapshot, lastMA12 >>

\* Mutant: power-up resets the latch but forgets the RAM-on flag.
powerup_result_keeps_ramON == [ reg |-> E888_ROMS_ON, ramON |-> petmem_ramON ]

\* pethre_powerup(): the latch and the RAM-on flag it leaves.
powerup_result == [ reg |-> E888_ROMS_ON, ramON |-> 0 ]

pethre_powerup ==
    /\ reg_E888' = powerup_result.reg
    /\ petmem_ramON' = powerup_result.ramON
    /\ call' = Call("pethre_powerup", << >>, 0)
    /\ UNCHANGED << pethre_enabled, ramsel9, ramselA, petres_map,
                    hires_draw_callback, crtc_regno, snapshot, lastMA12 >>

\* Mutant: reset clears the latch as power-up does.
reset_result_clears == [ reg |-> E888_ROMS_ON, ramON |-> 0 ]

\* pethre_reset(): the latch it leaves.
reset_result == [ reg |-> reg_E888, ramON |-> petmem_ramON ]

pethre_reset ==
    /\ reg_E888' = reset_result.reg
    /\ petmem_ramON' = reset_result.ramON
    /\ call' = Call("pethre_reset", << >>, 0)
    /\ UNCHANGED << pethre_enabled, ramsel9, ramselA, petres_map,
                    hires_draw_callback, crtc_regno, snapshot, lastMA12 >>

pethre_shutdown ==
    /\ call' = Call("pethre_shutdown", << >>, pethre_deactivate)
    /\ UNCHANGED board

\* Mutant: only one of the two usual values is recognised.
dump_unusual_one_sided == reg_E888 # E888_ROMS_ON

\* e888_dump(): what mon_out() prints.
dump_unusual == reg_E888 # E888_ROMS_ON /\ reg_E888 # E888_ROMS_OFF

e888_dump ==
    /\ call' = IF pethre_enabled # 0
               THEN [ Call("e888_dump", << >>, 0)
                        EXCEPT !.mon = [ e888 |-> reg_E888,
                                         unusual |-> dump_unusual,
                                         ramON |-> petmem_ramON ] ]
               ELSE Call("e888_dump", << >>, -1)
    /\ UNCHANGED board

----------------------------------------------------------------------------
(* I/O *)

IsLatchAddr(addr) == BitAnd(addr, E888_LATCH_ADDR_BIT) # 0
IsCrtcDataAddr(addr) == BitAnd(addr, CRTC_DATA_ADDR_BIT) # 0

\* Mutant: "ROMs off" leaves the RAM-on flag cleared.
latch_store_ramON_off(value) ==
    IF value # reg_E888
    THEN IF value = E888_ROMS_ON \/ value = E888_ROMS_OFF
         THEN [ ramON |-> 0, ramsel9 |-> 0, ramselA |-> 0, changed |-> 1, reg |-> value ]
         ELSE [ ramON |-> petmem_ramON, ramsel9 |-> ramsel9, ramselA |-> ramselA,
                changed |-> 0, reg |-> value ]
    ELSE [ ramON |-> petmem_ramON, ramsel9 |-> ramsel9, ramselA |-> ramselA,
           changed |-> 0, reg |-> reg_E888 ]

\* Mutant: a repeated value is not suppressed.
latch_store_unsuppressed(value) ==
    IF value = E888_ROMS_ON
    THEN [ ramON |-> 0, ramsel9 |-> 0, ramselA |-> 0, changed |-> 1, reg |-> value ]
    ELSE IF value = E888_ROMS_OFF
    THEN [ ramON |-> 1, ramsel9 |-> 0, ramselA |-> 0, changed |-> 1, reg |-> value ]
    ELSE [ ramON |-> petmem_ramON, ramsel9 |-> ramsel9, ramselA |-> ramselA,
           changed |-> 0, reg |-> value ]

\* The latch branch of crtc_store_hre(): the banking flags, the latch and
\* the number of ramsel_changed() calls it leaves.
latch_store(value) ==
    IF value # reg_E888
    THEN IF value = E888_ROMS_ON
         THEN [ ramON |-> 0, ramsel9 |-> 0, ramselA |-> 0, changed |-> 1, reg |-> value ]
         ELSE IF value = E888_ROMS_OFF
         THEN [ ramON |-> 1, ramsel9 |-> 0, ramselA |-> 0, changed |-> 1, reg |-> value ]
         ELSE [ ramON |-> petmem_ramON, ramsel9 |-> ramsel9, ramselA |-> ramselA,
                changed |-> 0, reg |-> value ]
    ELSE [ ramON |-> petmem_ramON, ramsel9 |-> ramsel9, ramselA |-> ramselA,
           changed |-> 0, reg |-> reg_E888 ]

\* Mutant: MA12 set does not unregister the callback.
start_hi_store_on_only(value) ==
    IF crtc_regno = CRTC_START_HI_REGNO /\ BitAnd(value, CRTC_MA12) = 0
    THEN "pethre_DRAW"
    ELSE hires_draw_callback

\* The start-address branch of crtc_store_hre(): the callback it leaves.
start_hi_store(value) ==
    IF crtc_regno = CRTC_START_HI_REGNO
    THEN IF BitAnd(value, CRTC_MA12) # 0
         THEN "NULL"
         ELSE "pethre_DRAW"
    ELSE hires_draw_callback

\* Mutant: the enable flag is not tested.
store_branch_ignores_enable(addr) ==
    IF IsLatchAddr(addr) THEN "latch"
    ELSE IF IsCrtcDataAddr(addr) THEN "start_hi"
    ELSE "none"

\* Mutant: the data-register bit is decoded before the latch bit.
store_branch_data_first(addr) ==
    IF pethre_enabled # 0
    THEN IF IsCrtcDataAddr(addr) THEN "start_hi"
         ELSE IF IsLatchAddr(addr) THEN "latch"
         ELSE "none"
    ELSE "disabled"

\* Which branch of crtc_store_hre() a write takes.
store_branch(addr) ==
    IF pethre_enabled # 0
    THEN IF IsLatchAddr(addr) THEN "latch"
         ELSE IF IsCrtcDataAddr(addr) THEN "start_hi"
         ELSE "none"
    ELSE "disabled"

crtc_store_hre(addr, value) ==
    LET b == store_branch(addr)
        l == latch_store(value)
        h == start_hi_store(value)
    IN
    /\ petmem_ramON' = IF b = "latch" THEN l.ramON ELSE petmem_ramON
    /\ ramsel9' = IF b = "latch" THEN l.ramsel9 ELSE ramsel9
    /\ ramselA' = IF b = "latch" THEN l.ramselA ELSE ramselA
    /\ reg_E888' = IF b = "latch" THEN l.reg ELSE reg_E888
    /\ hires_draw_callback' = IF b = "start_hi" THEN h ELSE hires_draw_callback
    /\ lastMA12' = IF pethre_enabled # 0 /\ addr \in StartHiAddrs
                       /\ crtc_regno = CRTC_START_HI_REGNO
                    THEN IF (value \div CRTC_MA12) % 2 = 1 THEN "set" ELSE "clear"
                    ELSE lastMA12
    /\ call' = [ Call("crtc_store_hre", << addr, value >>, 0)
                   EXCEPT !.ramsel_changed = IF b = "latch" THEN l.changed ELSE 0 ]
    /\ UNCHANGED << pethre_enabled, petres_map, crtc_regno, snapshot >>

\* The CRTC's address register selects the register the next data write
\* goes to (crtc.regno).
crtc_select(regno) ==
    /\ crtc_regno' = regno
    /\ call' = Call("crtc_select", << regno >>, 0)
    /\ UNCHANGED << pethre_enabled, reg_E888, petmem_ramON, ramsel9, ramselA,
                    petres_map, hires_draw_callback, snapshot, lastMA12 >>

----------------------------------------------------------------------------
(* Raster drawing *)

\* The contents of mem_ram: a fixed test pattern.
mem_ram(offset) == (offset * 7 + offset \div MA_WIDTH) % UINT8_MOD

\* Mutant: the high part is shifted by one bit too many.
shuffle_shift4(scr_rel, ymod8) ==
    LET ma_hi == BitAnd(scr_rel, MA_HI)
        ma_lo == BitAnd(scr_rel, MA_LO)
    IN  SCREEN_BASE + ShiftLeft(ma_hi, 4) + ShiftLeft(ymod8, 6) + ma_lo

\* Mutant: the row address is shifted by one bit too few.
shuffle_row_shift5(scr_rel, ymod8) ==
    LET ma_hi == BitAnd(scr_rel, MA_HI)
        ma_lo == BitAnd(scr_rel, MA_LO)
    IN  SCREEN_BASE + ShiftLeft(ma_hi, 3) + ShiftLeft(ymod8, 5) + ma_lo

\* Form <MA 11-6><RA 2-0><MA 5-0>: screen_rel - mem_ram.
shuffle(scr_rel, ymod8) ==
    LET ma_hi == BitAnd(scr_rel, MA_HI)
        ma_lo == BitAnd(scr_rel, MA_LO)
    IN  SCREEN_BASE + ShiftLeft(ma_hi, 3) + ShiftLeft(ymod8, 6) + ma_lo

\* pethre_DRAW gets past its guard.
draw_guard(xstart, xend, ymod8) == ymod8 < YMOD8_LIMIT /\ xstart < xend

\* The "screen_rel too large" printf.
draw_diag(screen_rel) == screen_rel >= SCREEN_END

\* The simple case is taken.
draw_simple(scr_rel, width) == BitAnd(scr_rel, MA_LO) = 0 /\ width <= MA_WIDTH

\* Mutant: the simple case indexes the source by i, which starts at xstart.
simple_reads_from_xstart(screen_rel, xstart, xend) ==
    [ k \in 1 .. (xend - xstart) |-> screen_rel + xstart + (k - 1) ]

\* The offsets *screen_rel++ reads in the simple case.
simple_reads(screen_rel, xstart, xend) ==
    [ k \in 1 .. (xend - xstart) |-> screen_rel + (k - 1) ]

\* Mutant: the skip jumps over eight planes instead of seven.
general_reads_skip8(screen_rel, ma_lo, width) ==
    LET w0 == MA_WIDTH - ma_lo
        width0 == IF width < w0 THEN width ELSE w0
    IN  [ k \in 1 .. width |->
            IF k <= width0 THEN screen_rel + (k - 1)
            ELSE screen_rel + (k - 1) + RA_SKIP + MA_WIDTH ]

\* The offsets *screen_rel++ reads in the general case.
general_reads(screen_rel, ma_lo, width) ==
    LET w0 == MA_WIDTH - ma_lo
        width0 == IF width < w0 THEN width ELSE w0
    IN  [ k \in 1 .. width |->
            IF k <= width0 THEN screen_rel + (k - 1)
            ELSE screen_rel + (k - 1) + RA_SKIP ]

\* The offsets pethre_DRAW reads, in order.
draw_reads(xstart, xend, scr_rel, ymod8) ==
    LET screen_rel == shuffle(scr_rel, ymod8)
        width == xend - xstart
    IN  IF draw_simple(scr_rel, width)
        THEN simple_reads(screen_rel, xstart, xend)
        ELSE general_reads(screen_rel, BitAnd(scr_rel, MA_LO), width)

\* The dwg_table indexes written through pw: d >> 4, then d & 0x0f.
draw_pw(reads) ==
    [ j \in 1 .. 2 * Len(reads) |->
        LET d == mem_ram(reads[(j + 1) \div 2])
        IN  IF j % 2 = 1 THEN d \div 16 ELSE BitAnd(d, 15) ]

\* The CRTC calls the callback it has registered.
pethre_DRAW(xstart, xend, scr_rel, ymod8) ==
    /\ hires_draw_callback = "pethre_DRAW"
    /\ call' = IF draw_guard(xstart, xend, ymod8)
               THEN LET r == draw_reads(xstart, xend, scr_rel, ymod8) IN
                    [ Call("pethre_DRAW", << xstart, xend, scr_rel, ymod8 >>, 0)
                        EXCEPT !.drawn = TRUE,
                               !.screen_rel = shuffle(scr_rel, ymod8),
                               !.diag = draw_diag(shuffle(scr_rel, ymod8)),
                               !.reads = r,
                               !.pw = draw_pw(r) ]
               ELSE Call("pethre_DRAW", << xstart, xend, scr_rel, ymod8 >>, 0)
    /\ UNCHANGED board

----------------------------------------------------------------------------
(* Snapshot *)

\* pethre_ram_write_snapshot_module(): the module it writes.
written_module ==
    [ name |-> module_ram_name,
      major |-> HREMEM_DUMP_VER_MAJOR, minor |-> HREMEM_DUMP_VER_MINOR,
      body |-> << reg_E888 % UINT16_MOD >> ]

pethre_snapshot_write_module ==
    /\ snapshot' = written_module
    /\ call' = Call("pethre_snapshot_write_module", << >>, 0)
    /\ UNCHANGED << pethre_enabled, reg_E888, petmem_ramON, ramsel9, ramselA,
                    petres_map, hires_draw_callback, crtc_regno, lastMA12 >>

\* Mutant: the word read from the module is dropped, the default is kept.
ram_read_module_default(m) ==
    IF m.name # module_ram_name
    THEN [ ret |-> -1, reg |-> reg_E888, log_error |-> FALSE ]
    ELSE IF m.major # HREMEM_DUMP_VER_MAJOR
    THEN [ ret |-> -1, reg |-> reg_E888, log_error |-> TRUE ]
    ELSE [ ret |-> 0, reg |-> SMR_W_DEFAULT % UINT8_MOD, log_error |-> FALSE ]

\* Mutant: the major version is not checked.
ram_read_module_any_version(m) ==
    IF m.name # module_ram_name
    THEN [ ret |-> -1, reg |-> reg_E888, log_error |-> FALSE ]
    ELSE LET w == IF Len(m.body) >= 1 THEN m.body[1] ELSE SMR_W_DEFAULT
         IN  [ ret |-> 0, reg |-> w % UINT8_MOD, log_error |-> FALSE ]

\* pethre_ram_read_snapshot_module(): its return value, the latch it leaves
\* and whether it logged an error.
ram_read_module(m) ==
    IF m.name # module_ram_name
    THEN [ ret |-> -1, reg |-> reg_E888, log_error |-> FALSE ]
    ELSE IF m.major # HREMEM_DUMP_VER_MAJOR
    THEN [ ret |-> -1, reg |-> reg_E888, log_error |-> TRUE ]
    ELSE LET w == IF Len(m.body) >= 1 THEN m.body[1] ELSE SMR_W_DEFAULT
         IN  [ ret |-> 0, reg |-> w % UINT8_MOD, log_error |-> FALSE ]

\* pethre_snapshot_read_module(): what it returns for the inner result.
snapshot_read_ret(inner) == IF inner < 0 THEN 0 ELSE 0

\* Mutant: the restore re-derives the RAM-on flag from the restored latch.
pethre_snapshot_read_module_rebank(m) ==
    LET r == ram_read_module(m) IN
    /\ reg_E888' = r.reg
    /\ petmem_ramON' = IF r.reg = E888_ROMS_OFF THEN 1
                       ELSE IF r.reg = E888_ROMS_ON THEN 0
                       ELSE petmem_ramON
    /\ call' = [ Call("pethre_snapshot_read_module", << m >>, snapshot_read_ret(r.ret))
                   EXCEPT !.ram_ret = r.ret, !.log_error = r.log_error ]
    /\ UNCHANGED << pethre_enabled, ramsel9, ramselA, petres_map,
                    hires_draw_callback, crtc_regno, snapshot, lastMA12 >>

pethre_snapshot_read_module(m) ==
    LET r == ram_read_module(m) IN
    /\ reg_E888' = r.reg
    /\ call' = [ Call("pethre_snapshot_read_module", << m >>, snapshot_read_ret(r.ret))
                   EXCEPT !.ram_ret = r.ret, !.log_error = r.log_error ]
    /\ UNCHANGED << pethre_enabled, petmem_ramON, ramsel9, ramselA, petres_map,
                    hires_draw_callback, crtc_regno, snapshot, lastMA12 >>

----------------------------------------------------------------------------
(* The machine *)

ScrRels == { 1024, 3072 }                   \* $0400, $0C00
YMod8s == { 0, 7, 8 }
XEnds == 0 .. MaxSmallWidth

Next ==
    \/ \E value \in EnableValues : set_pethre_enabled(value)
    \/ pethre_powerup
    \/ pethre_reset
    \/ pethre_shutdown
    \/ e888_dump
    \/ \E addr \in Addrs, value \in Values : crtc_store_hre(addr, value)
    \/ \E regno \in Regnos : crtc_select(regno)
    \/ \E xend \in XEnds, scr_rel \in ScrRels, ymod8 \in YMod8s :
          pethre_DRAW(0, xend, scr_rel, ymod8)
    \/ pethre_snapshot_write_module
    \/ \E m \in ForeignModules \cup { snapshot } : pethre_snapshot_read_module(m)

Spec == Init /\ [][Next]_vars

\* The machine with no snapshot restored into it.
NextNoRestore ==
    \/ \E value \in EnableValues : set_pethre_enabled(value)
    \/ pethre_powerup
    \/ pethre_reset
    \/ pethre_shutdown
    \/ e888_dump
    \/ \E addr \in Addrs, value \in Values : crtc_store_hre(addr, value)
    \/ \E regno \in Regnos : crtc_select(regno)
    \/ \E xend \in XEnds, scr_rel \in ScrRels, ymod8 \in YMod8s :
          pethre_DRAW(0, xend, scr_rel, ymod8)
    \/ pethre_snapshot_write_module

SpecNoRestore == Init /\ [][NextNoRestore]_vars

----------------------------------------------------------------------------
(* The raster translator alone: the board has hi-res on and the CRTC calls *)
(* the callback with every segment of the bounded input range.             *)

DrawWidths == (0 .. MaxSmallWidth) \cup { MA_WIDTH, MA_WIDTH + 1 }
DrawScrRels == 0 .. (MaxBlock * MA_WIDTH - 1)
DrawYMod8s == 0 .. YMOD8_LIMIT
DrawXStarts == 0 .. MaxXStart

DrawInit ==
    /\ pethre_enabled = 1
    /\ reg_E888 = E888_ROMS_ON
    /\ petmem_ramON = 0
    /\ ramsel9 = 0
    /\ ramselA = 0
    /\ petres_map = "PET_MAP_8296"
    /\ hires_draw_callback = "pethre_DRAW"
    /\ crtc_regno = CRTC_START_HI_REGNO
    /\ snapshot = NoModule
    /\ lastMA12 = "clear"
    /\ \E xstart \in DrawXStarts, width \in DrawWidths,
          scr_rel \in DrawScrRels, ymod8 \in DrawYMod8s :
             call = Call("crtc_draw", << xstart, xstart + width, scr_rel, ymod8 >>, 0)

\* The CRTC draws the segment it has at hand through the callback.
DrawNext ==
    /\ call.op = "crtc_draw"
    /\ pethre_DRAW(call.args[1], call.args[2], call.args[3], call.args[4])

DrawSpec == DrawInit /\ [][DrawNext]_vars

----------------------------------------------------------------------------
(* Properties *)

KnownGood == { E888_ROMS_ON, E888_ROMS_OFF }

\* The step is a write to the latch address with the feature enabled.
LatchWriteStep ==
    /\ call'.op = "crtc_store_hre"
    /\ pethre_enabled # 0
    /\ IsLatchAddr(call'.args[1])

\* The step is a write the start-address branch acts on.
StartHiWriteStep ==
    /\ call'.op = "crtc_store_hre"
    /\ pethre_enabled # 0
    /\ ~IsLatchAddr(call'.args[1])
    /\ IsCrtcDataAddr(call'.args[1])
    /\ crtc_regno = CRTC_START_HI_REGNO

\* The step deactivates the board: it disables an enabled board or shuts down.
DeactivateStep ==
    \/ call'.op = "pethre_shutdown"
    \/ /\ call'.op = "set_pethre_enabled"
       /\ Truth(call'.args[1]) = 0
       /\ pethre_enabled # 0

\* C1 as stated: every latch write of a known-good value v with the feature
\* enabled leaves RAM-on = (v = $83), both RAM-select overrides cleared and
\* the latch = v, with one notification if the latch differed and none if not.
C1_KnownGoodWriteAlwaysSetsFlags ==
    [][ (LatchWriteStep /\ call'.args[2] \in KnownGood)
        => /\ petmem_ramON' = (IF call'.args[2] = E888_ROMS_OFF THEN 1 ELSE 0)
           /\ ramsel9' = 0
           /\ ramselA' = 0
           /\ reg_E888' = call'.args[2]
           /\ call'.ramsel_changed = (IF reg_E888 # call'.args[2] THEN 1 ELSE 0) ]_vars

\* C1 as amended: a latch write of a known-good value v that differs from
\* the stored latch leaves RAM-on = (v = $83), both overrides cleared, the
\* latch = v and issues exactly one notification; a latch write of the value
\* already stored changes nothing (flags included) and issues none.
C1_KnownGoodWrite ==
    [][ (LatchWriteStep /\ call'.args[2] \in KnownGood)
        => IF reg_E888 # call'.args[2]
           THEN /\ petmem_ramON' = (IF call'.args[2] = E888_ROMS_OFF THEN 1 ELSE 0)
                /\ ramsel9' = 0
                /\ ramselA' = 0
                /\ reg_E888' = call'.args[2]
                /\ call'.ramsel_changed = 1
           ELSE /\ board' = board
                /\ call'.ramsel_changed = 0 ]_vars

\* A latch write of $83 over another value has turned the ROMs off.
C1_Witness ==
    /\ call.op = "crtc_store_hre"
    /\ pethre_enabled # 0
    /\ IsLatchAddr(call.args[1])
    /\ call.args[2] = E888_ROMS_OFF
    /\ call.ramsel_changed = 1
    /\ petmem_ramON = 1
    /\ reg_E888 = E888_ROMS_OFF

\* C2: a start-address write (feature enabled, start-address branch, register
\* 12 selected) unregisters the callback if MA12 ($10) is set and registers
\* pethre_DRAW if it is clear, whatever was registered; a step of any other
\* kind leaves the registration alone; so once such a write has happened the
\* callback is registered iff the most recent one had MA12 clear.
C2_HiresGate ==
    /\ [][ /\ StartHiWriteStep
              => hires_draw_callback' =
                    (IF (call'.args[2] \div CRTC_MA12) % 2 = 1
                     THEN "NULL" ELSE "pethre_DRAW")
           /\ ~StartHiWriteStep
              => hires_draw_callback' = hires_draw_callback ]_vars
    /\ [](lastMA12 # "none"
          => (hires_draw_callback = "pethre_DRAW" <=> lastMA12 = "clear"))

\* A start-address write with MA12 set has unregistered the callback and
\* the board has then been written to and disabled.
C2_Witness ==
    /\ lastMA12 = "set"
    /\ hires_draw_callback = "NULL"
    /\ pethre_enabled = 0
    /\ reg_E888 = E888_ROMS_OFF

\* C3 as stated: deactivating (disabling an enabled board, or shutdown)
\* succeeds, leaves the latch unchanged and leaves no callback registered.
C3_DeactivateUnregisters ==
    [][ DeactivateStep
        => /\ call'.ret = 0
           /\ reg_E888' = reg_E888
           /\ hires_draw_callback' = "NULL" ]_vars

\* C4 as stated: every byte pethre_DRAW reads lies inside the window, at an
\* offset from the code's base mem_ram + $8000 up to, not including, the end
\* boundary mem_ram + $E000.
C4_ReadsInsideWindow ==
    call.op = "pethre_DRAW"
    => \A k \in 1 .. Len(call.reads) :
          call.reads[k] >= SCREEN_BASE /\ call.reads[k] < SCREEN_END

\* C5 as stated: a start offset on the window's last byte draws with no
\* diagnostic; a start offset at or past the end boundary reports the
\* diagnostic and reads nothing at or past the end boundary.
C5_BoundaryCheck ==
    (call.op = "pethre_DRAW" /\ call.drawn)
    => /\ call.screen_rel = SCREEN_END - 1
          => (~call.diag /\ Len(call.reads) >= 1 /\ call.reads[1] = SCREEN_END - 1)
       /\ call.screen_rel >= SCREEN_END
          => (call.diag /\ \A k \in 1 .. Len(call.reads) : call.reads[k] < SCREEN_END)

\* C6 as stated: scr_rel = $0200 and ymod8 = 0 give the offset base + $2000.
C6_Start0200MapsTo2000 ==
    (call.op = "pethre_DRAW" /\ call.drawn /\ call.args[3] = 512 /\ call.args[4] = 0)
    => (call.screen_rel = SCREEN_BASE + 8192 /\ call.reads[1] = SCREEN_BASE + 8192)

\* C6 as amended: scr_rel = $0200 and ymod8 = 0 give the offset base + $1000;
\* base + $2000 is the offset of scr_rel = $0400 (matrix address $0200
\* doubled) and ymod8 = 0.
C6_StartOffsets ==
    (call.op = "pethre_DRAW" /\ call.drawn /\ call.args[4] = 0)
    => /\ call.args[3] = 512
          => (call.screen_rel = SCREEN_BASE + 4096 /\ call.reads[1] = SCREEN_BASE + 4096)
       /\ call.args[3] = 1024
          => (call.screen_rel = SCREEN_BASE + 8192 /\ call.reads[1] = SCREEN_BASE + 8192)

\* The segment at scr_rel = $0200, ymod8 = 0 has been drawn from base + $1000.
C6_Witness ==
    /\ call.op = "pethre_DRAW"
    /\ call.drawn
    /\ call.args[3] = 512
    /\ call.args[4] = 0
    /\ call.reads[1] = SCREEN_BASE + 4096

\* C7: a latch write of a value that is neither $0F nor $83 and differs from
\* the stored latch stores it, notifies nobody and leaves RAM-on and both
\* overrides as they were; the dump is annotated "(unusual value)" exactly
\* when the latch is neither $0F nor $83, and is refused (-1, no output)
\* when the feature is disabled.
C7_UnusualWrite ==
    [][ /\ (LatchWriteStep /\ call'.args[2] \notin KnownGood
                           /\ call'.args[2] # reg_E888)
           => /\ reg_E888' = call'.args[2]
              /\ call'.ramsel_changed = 0
              /\ petmem_ramON' = petmem_ramON
              /\ ramsel9' = ramsel9
              /\ ramselA' = ramselA
        /\ (call'.op = "e888_dump" /\ pethre_enabled # 0)
           => /\ call'.ret = 0
              /\ call'.mon.e888 = reg_E888
              /\ call'.mon.unusual = (reg_E888 \notin KnownGood)
        /\ (call'.op = "e888_dump" /\ pethre_enabled = 0)
           => /\ call'.ret = -1
              /\ call'.mon = NoMon ]_vars

\* The dump of a latch holding an unusual value, with RAM on.
C7_Witness ==
    /\ call.op = "e888_dump"
    /\ call.mon.unusual
    /\ call.mon.e888 = 18
    /\ call.mon.ramON = 1

\* C8: a latch write of the value already stored changes nothing and
\* notifies nobody; a known-good value that differs is notified once, so the
\* same value written twice in a row is notified once in total; and no write
\* is notified more than once.
C8_LatchWriteIdempotent ==
    [][ /\ (LatchWriteStep /\ call'.args[2] = reg_E888)
           => (board' = board /\ call'.ramsel_changed = 0)
        /\ (LatchWriteStep /\ call'.args[2] \in KnownGood /\ call'.args[2] # reg_E888)
           => call'.ramsel_changed = 1
        /\ (/\ LatchWriteStep
            /\ call.op = "crtc_store_hre"
            /\ IsLatchAddr(call.args[1])
            /\ call.args[2] = call'.args[2]
            /\ call.ramsel_changed = 1)
           => call.ramsel_changed + call'.ramsel_changed = 1
        /\ call'.ramsel_changed <= 1 ]_vars

\* $83 has been written to the latch that already held it: no notification.
C8_Witness ==
    /\ call.op = "crtc_store_hre"
    /\ pethre_enabled # 0
    /\ IsLatchAddr(call.args[1])
    /\ call.args[2] = E888_ROMS_OFF
    /\ reg_E888 = E888_ROMS_OFF
    /\ petmem_ramON = 1
    /\ call.ramsel_changed = 0

\* C9: power-up leaves latch = $0F and RAM-on = false, enabled or not; a
\* reset leaves the latch, RAM-on, the overrides and the callback as they were.
C9_PowerupVersusReset ==
    [][ /\ call'.op = "pethre_powerup"
           => (reg_E888' = E888_ROMS_ON /\ petmem_ramON' = 0)
        /\ call'.op = "pethre_reset"
           => board' = board ]_vars

\* A reset after the latch was written to $83: the latch still holds it.
C9_Witness ==
    /\ call.op = "pethre_reset"
    /\ reg_E888 = E888_ROMS_OFF
    /\ petmem_ramON = 1
    /\ hires_draw_callback = "pethre_DRAW"

\* C10: enabling a disabled board on a model other than the 8296 fails with
\* an error and leaves it disabled and the latch unchanged; enabling on an
\* 8296 succeeds, sets the flag and leaves the latch; disabling succeeds
\* and clears the flag.
C10_EnableDisable ==
    [][ call'.op = "set_pethre_enabled"
        => /\ reg_E888' = reg_E888
           /\ (Truth(call'.args[1]) = 1 /\ pethre_enabled = 0
                 /\ petres_map # "PET_MAP_8296")
              => (call'.ret = -1 /\ call'.ui_error /\ pethre_enabled' = 0)
           /\ (Truth(call'.args[1]) = 1 /\ petres_map = "PET_MAP_8296")
              => (call'.ret = 0 /\ ~call'.ui_error /\ pethre_enabled' = 1)
           /\ Truth(call'.args[1]) = 0
              => (call'.ret = 0 /\ pethre_enabled' = 0) ]_vars

\* Enabling was refused on a model that is not the 8296.
C10_Witness ==
    /\ call.op = "set_pethre_enabled"
    /\ call.args[1] # 0
    /\ call.ret = -1
    /\ call.ui_error
    /\ pethre_enabled = 0
    /\ petres_map # "PET_MAP_8296"
    /\ reg_E888 = E888_ROMS_ON

\* C11: the snapshot writer emits the record "HREMEM", version 1.0, with
\* one 16-bit field holding the latch zero-extended; nothing else changes
\* the record; and reading that record back succeeds and leaves the latch
\* at the value recorded, whatever the latch held before the read.
C11_SnapshotRoundTrip ==
    [][ /\ call'.op = "pethre_snapshot_write_module"
           => /\ call'.ret = 0
              /\ snapshot'.name = "HREMEM"
              /\ snapshot'.major = 1
              /\ snapshot'.minor = 0
              /\ snapshot'.body = << reg_E888 >>
              /\ reg_E888' = reg_E888
        /\ call'.op # "pethre_snapshot_write_module"
           => snapshot' = snapshot
        /\ (/\ call'.op = "pethre_snapshot_read_module"
            /\ snapshot # NoModule
            /\ call'.args[1] = snapshot)
           => /\ call'.ret = 0
              /\ call'.ram_ret = 0
              /\ reg_E888' = snapshot.body[1] ]_vars

\* The record written with latch = $83 has been read back over a board
\* whose RAM-on flag is clear (its latch was not written to $83).
C11_Witness ==
    /\ call.op = "pethre_snapshot_read_module"
    /\ call.args[1] = snapshot
    /\ snapshot.body = << E888_ROMS_OFF >>
    /\ call.ram_ret = 0
    /\ reg_E888 = E888_ROMS_OFF
    /\ petmem_ramON = 0

\* C12: reading a HREMEM record whose major version is not 1 fails in the
\* record reader (-1, with the version error logged) and leaves the latch
\* at the value it had before the read.
C12_VersionMismatch ==
    [][ (/\ call'.op = "pethre_snapshot_read_module"
         /\ call'.args[1].name = "HREMEM"
         /\ call'.args[1].major # 1)
        => /\ call'.ram_ret = -1
           /\ call'.log_error
           /\ reg_E888' = reg_E888 ]_vars

\* A record of major version 2 holding $83 was refused on a powered-up
\* board: the latch is still $0F.
C12_Witness ==
    /\ call.op = "pethre_snapshot_read_module"
    /\ call.args[1].name = "HREMEM"
    /\ call.args[1].major = 2
    /\ call.args[1].body = << E888_ROMS_OFF >>
    /\ call.ram_ret = -1
    /\ call.log_error
    /\ reg_E888 = E888_ROMS_ON

\* C13 as stated: reading a snapshot with no HREMEM record returns success
\* and leaves the latch at $0F, whatever it held before.
C13_AbsentRecordDefaultsLatch ==
    [][ (/\ call'.op = "pethre_snapshot_read_module"
         /\ call'.args[1].name # "HREMEM")
        => /\ call'.ret = 0
           /\ reg_E888' = E888_ROMS_ON ]_vars

\* The inputs of the draw call recorded in call.
DrawXStart == call.args[1]
DrawXEnd == call.args[2]
DrawScrRel == call.args[3]
DrawYMod8 == call.args[4]
DrawWidth == call.args[2] - call.args[1]
DrawLowPart == call.args[3] % 64
Drawn == call.op = "pethre_DRAW" /\ call.drawn

\* C14: for a segment with lowPart = 0 and width in 1..64 the offsets read
\* and the pixel groups written by pethre_DRAW (the simple case) are those
\* of the general-case computation on the same inputs: width0 = min(width,
\* 64 - lowPart) bytes, a skip of 7*64, the remaining bytes; per byte the
\* high nibble's group and then the low nibble's.
C14_SimpleEqualsGeneral ==
    (Drawn /\ DrawLowPart = 0 /\ DrawWidth >= 1 /\ DrawWidth <= 64)
    => LET g == general_reads(SCREEN_BASE + DrawScrRel * 8 + DrawYMod8 * 64,
                              DrawLowPart, DrawWidth)
       IN  /\ call.reads = g
           /\ Len(call.pw) = 2 * DrawWidth
           /\ \A k \in 1 .. DrawWidth :
                 /\ call.pw[2 * k - 1] = mem_ram(g[k]) \div 16
                 /\ call.pw[2 * k] = mem_ram(g[k]) % 16

\* A full 64-byte aligned segment starting at column xstart = 1 was drawn.
C14_Witness ==
    /\ Drawn
    /\ DrawLowPart = 0
    /\ DrawXStart = 1
    /\ DrawWidth = 64
    /\ DrawYMod8 = 7
    /\ Len(call.reads) = 64
    /\ Len(call.pw) = 128

\* C16: with the screen start at $0400 the byte of scanline
\* y = 8 * charRow + ymod8 (charRow in 0..31) and column c in 0..63, that is
\* scr_rel = $0400 + 64 * charRow + c, is read from base + $2000 + 64 * y + c;
\* a whole line (c = 0, width 64) is one run of 64 consecutive bytes.
C16_LinearLayout ==
    (Drawn /\ DrawScrRel >= 1024 /\ DrawScrRel < 1024 + 64 * 32)
    => LET charRow == (DrawScrRel - 1024) \div 64
           c == (DrawScrRel - 1024) % 64
           y == 8 * charRow + DrawYMod8
       IN  /\ call.reads[1] = SCREEN_BASE + 8192 + 64 * y + c
           /\ (c = 0 /\ DrawWidth = 64)
              => \A k \in 1 .. 64 :
                    call.reads[k] = SCREEN_BASE + 8192 + 64 * y + (k - 1)

\* The last scanline (charRow 31, ymod8 7) was drawn whole: it ends on the
\* last byte of the window.
C16_Witness ==
    /\ Drawn
    /\ DrawScrRel = 1024 + 64 * 31
    /\ DrawYMod8 = 7
    /\ DrawWidth = 64
    /\ call.reads[1] = SCREEN_BASE + 8192 + 64 * 255
    /\ call.reads[64] = SCREEN_END - 1

\* C17: when the segment crosses at most one 64-byte block boundary
\* (width - width0 <= 64, width0 = min(width, 64 - lowPart)) the i-th byte
\* read is the one at the shuffled offset of matrix address scr_rel + i in
\* the same row: the first width0 bytes run on from the start offset, the
\* others run on from start offset + width0 + 7*64.
C17_GeneralPathSequence ==
    LET w0 == IF DrawWidth < 64 - DrawLowPart THEN DrawWidth ELSE 64 - DrawLowPart
    IN  (Drawn /\ DrawWidth - w0 <= 64)
        => /\ Len(call.reads) = DrawWidth
           /\ \A i \in 0 .. DrawWidth - 1 :
                 LET a == DrawScrRel + i
                 IN  /\ call.reads[i + 1] =
                          SCREEN_BASE + (a - (a % 64)) * 8 + DrawYMod8 * 64 + (a % 64)
                     /\ call.reads[i + 1] =
                          IF i < w0 THEN call.screen_rel + i
                          ELSE call.screen_rel + w0 + 448 + (i - w0)

\* A segment of two bytes starting on the last byte of a block was drawn:
\* the second byte comes from the next block, 7*64 + 1 further on.
C17_Witness ==
    /\ Drawn
    /\ DrawLowPart = 63
    /\ DrawWidth = 2
    /\ DrawYMod8 = 3
    /\ call.reads[2] = call.reads[1] + 1 + 448

\* C15: while the feature is disabled a write to the board, whatever its
\* address, value and selected register, changes nothing and notifies nobody.
C15_DisabledWriteIsNoOp ==
    [][ (call'.op = "crtc_store_hre" /\ pethre_enabled = 0)
        => /\ reg_E888' = reg_E888
           /\ petmem_ramON' = petmem_ramON
           /\ ramsel9' = ramsel9
           /\ ramselA' = ramselA
           /\ hires_draw_callback' = hires_draw_callback
           /\ call'.ramsel_changed = 0 ]_vars

\* $0F was written to the latch address of a disabled board whose latch
\* holds $83, RAM on, hi-res on and register 12 selected.
C15_Witness ==
    /\ call.op = "crtc_store_hre"
    /\ call.args = << 59528, E888_ROMS_ON >>
    /\ pethre_enabled = 0
    /\ reg_E888 = E888_ROMS_OFF
    /\ petmem_ramON = 1
    /\ hires_draw_callback = "pethre_DRAW"
    /\ crtc_regno = CRTC_START_HI_REGNO

\* C18: with no snapshot restored, latch = $0F implies RAM-on = false and
\* latch = $83 implies RAM-on = true.
C18_LatchBankingConsistent ==
    /\ reg_E888 = E888_ROMS_ON => petmem_ramON = 0
    /\ reg_E888 = E888_ROMS_OFF => petmem_ramON = 1

\* Power-up after the ROMs were turned off: latch $0F and RAM-on false.
C18_Witness ==
    /\ call.op = "pethre_powerup"
    /\ reg_E888 = E888_ROMS_ON
    /\ petmem_ramON = 0
    /\ ramsel9 = 0
    /\ ramselA = 0
    /\ pethre_enabled = 1
    /\ lastMA12 = "clear"

\* C19: a snapshot read, whatever the record, leaves RAM-on, both
\* overrides, the enable flag and the callback as they were and notifies
\* nobody.
C19_RestoreTouchesLatchOnly ==
    [][ call'.op = "pethre_snapshot_read_module"
        => /\ petmem_ramON' = petmem_ramON
           /\ ramsel9' = ramsel9
           /\ ramselA' = ramselA
           /\ pethre_enabled' = pethre_enabled
           /\ hires_draw_callback' = hires_draw_callback
           /\ call'.ramsel_changed = 0 ]_vars

\* Latch $83 was restored from a foreign record into an enabled board with
\* RAM-on false: RAM-on is still false.
C19_Witness ==
    /\ call.op = "pethre_snapshot_read_module"
    /\ call.args[1].body = << 387 >>
    /\ call.ram_ret = 0
    /\ reg_E888 = E888_ROMS_OFF
    /\ petmem_ramON = 0
    /\ pethre_enabled = 1

\* C20: with the feature enabled, a write with address bit 3 set never
\* changes the callback, even with bit 0 set and register 12 selected; a
\* write with bit 3 clear never changes the latch, RAM-on or the overrides
\* and notifies nobody, and changes the callback only with bit 0 set and
\* register 12 selected.
C20_DecodePriority ==
    [][ (call'.op = "crtc_store_hre" /\ pethre_enabled # 0)
        => /\ (call'.args[1] \div 8) % 2 = 1
              => hires_draw_callback' = hires_draw_callback
           /\ (call'.args[1] \div 8) % 2 = 0
              => /\ reg_E888' = reg_E888
                 /\ petmem_ramON' = petmem_ramON
                 /\ ramsel9' = ramsel9
                 /\ ramselA' = ramselA
                 /\ call'.ramsel_changed = 0
                 /\ hires_draw_callback' # hires_draw_callback
                    => (call'.args[1] % 2 = 1 /\ crtc_regno = CRTC_START_HI_REGNO) ]_vars

\* $12 (MA12 set) was written to $E889 with register 12 selected and hi-res
\* on: it went to the latch and hi-res is still on.
C20_Witness ==
    /\ call.op = "crtc_store_hre"
    /\ call.args = << 59529, 18 >>
    /\ pethre_enabled = 1
    /\ crtc_regno = CRTC_START_HI_REGNO
    /\ reg_E888 = 18
    /\ hires_draw_callback = "pethre_DRAW"

====
